---- MODULE Spec2Model ----
(***************************************************************************)
(* Room / turn synchronisation core of the multiplayer "Truth or Dare"     *)
(* game: the shared store (rooms, players, prompts, game_state, responses) *)
(* and the browser clients that act on it (CreateRoomPage, JoinRoomPage,   *)
(* RoomLobbyPage, GamePage).  Every handler is split at its awaits of a    *)
(* store write where another client can act in between; a request that is  *)
(* in flight, and a pending setTimeout, is an element of the bag net.      *)
(***************************************************************************)
EXTENDS Integers, Sequences, FiniteSets, Bags, TLC

\* ------------------------------------------------------------------ bounds
NClients == 3
MaxRooms == 2
NCodes == 2
MaxGameStates == 2
MaxResponses == 1
MaxTurns == 1
MaxQueue == 1
MaxInFlight == 1
NVisitors == 3
MaxPlayers == 2
DeepResponses == 3
DeepTurns == 3
AdvanceTurns == 2
RacePlayers == 3

Clients == 1..NClients
Codes == 1..NCodes
Null == 0

\* --------------------------------------------------------- prompt catalog
\* prompts(id, type, content): id 1 is a truth, id 2 a dare.
PromptIds == {1, 2}
PromptType(p) == IF p = 1 THEN "truth" ELSE "dare"
Types == {"truth", "dare"}
\* The catalogs a deployment may be seeded with (the table is never written
\* by the application): both types, truths only, empty.
Catalogs == {{1, 2}, {1}, {}}

\* ------------------------------------------------------------ error texts
ErrEmptyInput == "Please enter both nickname and room code"
ErrRoomNotFound == "Room not found. Please check the room code."
ErrGameStarted == "Game has already started"
ErrJoinFailed == "Failed to join room. Please try again."
ErrStore == "StoreError"
ErrNoPromptsAvailable == "No prompts available"
ErrNoPromptsFound == "No prompts found"
ErrSingle == "JSON object requested, multiple (or no) rows returned"

VARIABLES
  rooms,       \* table rooms: sequence of [code, status]; the id is the index
  playerRows,  \* table players: sequence of [room_id, is_host, turn_order]
  prompts,     \* table prompts: the set of prompt ids of the catalog
  game_state,  \* table game_state: sequence of [room_id, cur, prompt, status]
  responses,   \* table responses: sequence of [room_id, player_id, prompt_id]
  cl,          \* per client: sessionStorage, the page and its React state
  net,         \* bag of store requests in flight and of pending timers
  hist         \* history: per room, the current players written so far,
               \* each with what the store saw while it was the last write

vars == <<rooms, playerRows, prompts, game_state, responses, cl, net, hist>>

\* The local GameState copy of a page that has none yet (useState(null)).
NoGameState == [cur |-> Null, prompt |-> Null]

\* React state of a freshly mounted page component (the useState defaults).
FreshPage(c, page) ==
  [cl[c] EXCEPT !.page = page, !.err = "", !.loading = (page # "home"),
                !.players = <<>>, !.isHost = FALSE, !.gameStarted = FALSE,
                !.gameState = NoGameState, !.currentPrompt = Null,
                !.isCurrentPlayer = FALSE, !.hasResponded = FALSE,
                !.showTypeSelection = TRUE, !.events = <<>>]

InitClient ==
  [page |-> "home", playerId |-> Null, roomId |-> Null, nickname |-> Null,
   err |-> "",
   loading |-> FALSE, players |-> <<>>, isHost |-> FALSE,
   gameStarted |-> FALSE, gameState |-> NoGameState, currentPrompt |-> Null,
   isCurrentPlayer |-> FALSE, hasResponded |-> FALSE,
   showTypeSelection |-> TRUE, events |-> <<>>]

\* A request in flight (or a timer): every kind uses the same record shape.
\* at is the store's clock reading of an insert whose row has a created_at.
Req(kind, c, room, pid, prompt, cur, roster, turn) ==
  [kind |-> kind, c |-> c, room |-> room, pid |-> pid, prompt |-> prompt,
   cur |-> cur, roster |-> roster, turn |-> turn, at |-> 0]

Send(m) == net (+) SetToBag({m})
Done(m) == net (-) SetToBag({m})
InFlight(kind) == {m \in BagToSet(net) : m.kind = kind}
\* Number of requests of a kind in the bag b.
Pending(b, kind) ==
  LET ms == {m \in BagToSet(b) : m.kind = kind}
      Sum[S \in SUBSET ms] ==
        IF S = {} THEN 0
        ELSE LET m == CHOOSE x \in S : TRUE
             IN CopiesIn(m, b) + Sum[S \ {m}]
  IN Sum[ms]

\* An entry of the history: the current player a write set, the turn the
\* writer saw, whether that player's type choice has been committed since,
\* and how many responses of that player were appended since.
Written(p, turn) == [cur |-> p, turn |-> turn, chosen |-> FALSE, answers |-> 0]

\* The history of room r after a committed type choice of player p.
Chose(r, p) ==
  IF hist[r] = <<>> THEN hist
  ELSE [hist EXCEPT ![r][Len(hist[r])].chosen = @ \/ hist[r][Len(hist[r])].cur = p]

\* The history of room r after an appended response of player p.
Answered(r, p) ==
  IF hist[r] = <<>> THEN hist
  ELSE [hist EXCEPT ![r][Len(hist[r])].answers =
                      IF hist[r][Len(hist[r])].cur = p THEN @ + 1 ELSE @]

\* The history of room r after a write of current player next by a writer
\* that saw the given turn: a write of the player who is current already is
\* no change of the turn and keeps what the store saw.
Advanced(r, next, turn) ==
  LET last == hist[r][Len(hist[r])]
  IN [hist EXCEPT ![r] = Append(@,
        IF hist[r] # <<>> /\ last.cur = next
          THEN [last EXCEPT !.turn = turn]
          ELSE Written(next, turn))]

Init ==
  /\ rooms = <<>>
  /\ playerRows = <<>>
  /\ prompts \in Catalogs
  /\ game_state = <<>>
  /\ responses = <<>>
  /\ cl = [c \in Clients |-> InitClient]
  /\ net = EmptyBag
  /\ hist = [r \in 1..MaxRooms |-> <<>>]

\* ------------------------------------------------------------ store reads
RoomsWithCode(code) == {r \in DOMAIN rooms : rooms[r].code = code}
PlayersOf(r) == {p \in DOMAIN playerRows : playerRows[p].room_id = r}
GameStatesOf(r) == {g \in DOMAIN game_state : game_state[g].room_id = r}

\* A variant of the roster query that forgets the room filter; the room
\* invariant of the current player (C3) must tell it from the real query.
PlayersQueryAnyRoom(r) ==
  LET S == DOMAIN playerRows
      n == Cardinality(S)
  IN {s \in [1..n -> S] :
        /\ \A i, j \in 1..n : i < j =>
             /\ s[i] # s[j]
             /\ playerRows[s[i]].turn_order <= playerRows[s[j]].turn_order}

\* select * from players where room_id = r order by turn_order asc: every
\* sequence of the room's players that ascends by turn_order.  The query
\* names no second key, so rows of equal turn_order come in any order.
PlayersQuery(r) ==
  LET S == PlayersOf(r)
      n == Cardinality(S)
  IN {s \in [1..n -> S] :
        /\ \A i, j \in 1..n : i < j =>
             /\ s[i] # s[j]
             /\ playerRows[s[i]].turn_order <= playerRows[s[j]].turn_order}

\* ------------------------------------------------------- CreateRoomPage
\* A variant of handleCreateRoom on a rooms table without the unique
\* constraint on code; the uniqueness of room codes (C14) must tell it from
\* the real one.
CreateRoomNoUnique(c, code) ==
  /\ cl[c].page = "home"
  /\ ~cl[c].loading
  /\ rooms' = Append(rooms, [code |-> code, status |-> "waiting"])
  /\ net' = Send(Req("hostInsert", c, Len(rooms) + 1, Null, Null,
                     Null, <<>>, 0))
  /\ cl' = [cl EXCEPT ![c].err = "", ![c].loading = TRUE]
  /\ UNCHANGED <<playerRows, prompts, game_state, responses, hist>>

\* handleCreateRoom up to the await of the host insert: the room insert is
\* rejected when the generated code is taken (code TEXT UNIQUE).
CreateRoom(c, code) ==
  /\ cl[c].page = "home"
  /\ ~cl[c].loading
  /\ IF RoomsWithCode(code) # {}
       THEN /\ cl' = [cl EXCEPT ![c].err = ErrStore]
            /\ UNCHANGED <<rooms, net>>
       ELSE /\ rooms' = Append(rooms, [code |-> code, status |-> "waiting"])
            /\ net' = Send(Req("hostInsert", c, Len(rooms) + 1, Null, Null,
                               Null, <<>>, 0))
            /\ cl' = [cl EXCEPT ![c].err = "", ![c].loading = TRUE]
  /\ UNCHANGED <<playerRows, prompts, game_state, responses, hist>>

\* handleCreateRoom from the host insert on: the row, the session, the lobby.
HostInsertOk(c) ==
  \E m \in InFlight("hostInsert") :
    /\ m.c = c
    /\ playerRows' = Append(playerRows,
         [room_id |-> m.room, is_host |-> TRUE, turn_order |-> 1])
    /\ cl' = [cl EXCEPT ![c] =
         [FreshPage(c, "lobby") EXCEPT !.playerId = Len(playerRows) + 1,
                                       !.roomId = m.room]]
    /\ net' = Done(m)
    /\ UNCHANGED <<rooms, prompts, game_state, responses, hist>>

\* The host insert is rejected by the store: the error is shown, the room
\* row stays.
HostInsertFail(c) ==
  \E m \in InFlight("hostInsert") :
    /\ m.c = c
    /\ cl' = [cl EXCEPT ![c].err = ErrStore, ![c].loading = FALSE]
    /\ net' = Done(m)
    /\ UNCHANGED <<rooms, playerRows, prompts, game_state, responses, hist>>

\* --------------------------------------------------------- JoinRoomPage
\* A variant of handleJoinRoom that reports a started game like a missing
\* room; the rejection of a join on an active room (C8) must tell them apart.
JoinRoomActiveAsMissing(c, nickEmpty, code) ==
  /\ cl[c].page = "home"
  /\ ~cl[c].loading
  /\ IF nickEmpty \/ code = 0
       THEN /\ cl' = [cl EXCEPT ![c].err = ErrEmptyInput]
            /\ net' = net
       ELSE IF RoomsWithCode(code) = {}
       THEN /\ cl' = [cl EXCEPT ![c].err = ErrRoomNotFound]
            /\ net' = net
       ELSE LET r == CHOOSE x \in RoomsWithCode(code) : TRUE
            IN IF rooms[r].status = "active"
                 THEN /\ cl' = [cl EXCEPT ![c].err = ErrRoomNotFound]
                      /\ net' = net
                 ELSE /\ cl' = [cl EXCEPT ![c].err = "", ![c].loading = TRUE]
                      /\ net' = Send(Req("playerInsert", c, r, Null, Null,
                                         Null, <<>>, 0))
  /\ UNCHANGED <<rooms, playerRows, prompts, game_state, responses, hist>>

\* A variant of handleJoinRoom without the special case of the no-row error
\* of single(): a missing room ends in the generic failure of the catch
\* block.  The rejection of an unknown code (C9) must tell them apart.
JoinRoomMissingAsFailure(c, nickEmpty, code) ==
  /\ cl[c].page = "home"
  /\ ~cl[c].loading
  /\ IF nickEmpty \/ code = 0
       THEN /\ cl' = [cl EXCEPT ![c].err = ErrEmptyInput]
            /\ net' = net
       ELSE IF RoomsWithCode(code) = {}
       THEN /\ cl' = [cl EXCEPT ![c].err = ErrJoinFailed]
            /\ net' = net
       ELSE LET r == CHOOSE x \in RoomsWithCode(code) : TRUE
            IN IF rooms[r].status = "active"
                 THEN /\ cl' = [cl EXCEPT ![c].err = ErrGameStarted]
                      /\ net' = net
                 ELSE /\ cl' = [cl EXCEPT ![c].err = "", ![c].loading = TRUE]
                      /\ net' = Send(Req("playerInsert", c, r, Null, Null,
                                         Null, <<>>, 0))
  /\ UNCHANGED <<rooms, playerRows, prompts, game_state, responses, hist>>

\* handleJoinRoom up to the await of the player insert.  code 0 is the
\* empty room code; nickEmpty says the trimmed nickname is empty.
JoinRoom(c, nickEmpty, code) ==
  /\ cl[c].page = "home"
  /\ ~cl[c].loading
  /\ IF nickEmpty \/ code = 0
       THEN /\ cl' = [cl EXCEPT ![c].err = ErrEmptyInput]
            /\ net' = net
       ELSE IF RoomsWithCode(code) = {}
       THEN /\ cl' = [cl EXCEPT ![c].err = ErrRoomNotFound]
            /\ net' = net
       ELSE LET r == CHOOSE x \in RoomsWithCode(code) : TRUE
            IN IF rooms[r].status = "active"
                 THEN /\ cl' = [cl EXCEPT ![c].err = ErrGameStarted]
                      /\ net' = net
                 ELSE /\ cl' = [cl EXCEPT ![c].err = "", ![c].loading = TRUE]
                      /\ net' = Send(Req("playerInsert", c, r, Null, Null,
                                         Null, <<>>, 0))
  /\ UNCHANGED <<rooms, playerRows, prompts, game_state, responses, hist>>

\* The nickname visitor c types into the form.
Nickname(c) == c

\* handleJoinRoom from the player insert on.
PlayerInsertOk(c) ==
  \E m \in InFlight("playerInsert") :
    /\ m.c = c
    /\ playerRows' = Append(playerRows,
         [room_id |-> m.room, is_host |-> FALSE, turn_order |-> 0])
    /\ cl' = [cl EXCEPT ![c] =
         [FreshPage(c, "lobby") EXCEPT !.playerId = Len(playerRows) + 1,
                                       !.roomId = m.room,
                                       !.nickname = Nickname(c)]]
    /\ net' = Done(m)
    /\ UNCHANGED <<rooms, prompts, game_state, responses, hist>>

PlayerInsertFail(c) ==
  \E m \in InFlight("playerInsert") :
    /\ m.c = c
    /\ cl' = [cl EXCEPT ![c].err = ErrJoinFailed, ![c].loading = FALSE]
    /\ net' = Done(m)
    /\ UNCHANGED <<rooms, playerRows, prompts, game_state, responses, hist>>

\* -------------------------------------------------------- RoomLobbyPage
\* checkHost: the is_host column of the session's player row.
CheckHost(c) ==
  /\ cl[c].page = "lobby"
  /\ cl' = [cl EXCEPT ![c].isHost = playerRows[cl[c].playerId].is_host]
  /\ cl' # cl
  /\ UNCHANGED <<rooms, playerRows, prompts, game_state, responses, net, hist>>

\* fetchPlayers of the lobby (mount, 2 s poll, players change events).
LobbyFetchPlayers(c) ==
  /\ cl[c].page = "lobby"
  /\ \E q \in PlayersQuery(cl[c].roomId) :
       cl' = [cl EXCEPT ![c].players = q, ![c].loading = FALSE]
  /\ cl' # cl
  /\ UNCHANGED <<rooms, playerRows, prompts, game_state, responses, net, hist>>

\* checkGameStatus (mount, 2 s poll, rooms change events).
CheckGameStatus(c) ==
  /\ cl[c].page = "lobby"
  /\ cl' = [cl EXCEPT
              ![c].gameStarted = (rooms[cl[c].roomId].status = "active")]
  /\ cl' # cl
  /\ UNCHANGED <<rooms, playerRows, prompts, game_state, responses, net, hist>>

\* The lobby renders its buttons only when neither loading nor error is set.
LobbyShown(c) == cl[c].page = "lobby" /\ ~cl[c].loading /\ cl[c].err = ""

\* The row startGame inserts: players[0] of the lobby's roster and the prompt
\* drawn at random.
InitialGameState(c, p) ==
  [room_id |-> cl[c].roomId, cur |-> cl[c].players[1], prompt |-> p,
   status |-> "active"]

\* A variant of startGame behind a start button that is enabled for any
\* loaded roster; the two-player rule (C12) must tell it from the real one.
StartGameAnyRoster(c) ==
  /\ LobbyShown(c)
  /\ cl[c].isHost
  /\ Len(cl[c].players) >= 1
  /\ rooms' = [rooms EXCEPT ![cl[c].roomId].status = "active"]
  /\ IF prompts = {}
       THEN /\ cl' = [cl EXCEPT ![c].err = ErrNoPromptsAvailable]
            /\ net' = net
       ELSE /\ \E p \in prompts :
                 LET row == InitialGameState(c, p)
                 IN net' = Send(Req("gsInsert", c, row.room_id, row.cur,
                                    row.prompt, Null, <<>>, 0))
            /\ cl' = cl
  /\ UNCHANGED <<playerRows, prompts, game_state, responses, hist>>

\* startGame up to the await of the game_state insert: the room is set
\* active (the update's result is not looked at), then the prompts are read.
StartGame(c) ==
  /\ LobbyShown(c)
  /\ cl[c].isHost
  /\ Len(cl[c].players) >= 2
  /\ rooms' = [rooms EXCEPT ![cl[c].roomId].status = "active"]
  /\ IF prompts = {}
       THEN /\ cl' = [cl EXCEPT ![c].err = ErrNoPromptsAvailable]
            /\ net' = net
       ELSE /\ \E p \in prompts :
                 LET row == InitialGameState(c, p)
                 IN net' = Send(Req("gsInsert", c, row.room_id, row.cur,
                                    row.prompt, Null, <<>>, 0))
            /\ cl' = cl
  /\ UNCHANGED <<playerRows, prompts, game_state, responses, hist>>

\* A change event of game_state reaches the GamePages subscribed to room r
\* (filter room_id=eq.r); a page whose queue is full misses it.
Enqueue(q, evs) ==
  LET all == q \o evs
  IN SubSeq(all, 1, IF Len(all) < MaxQueue THEN Len(all) ELSE MaxQueue)

Broadcast(f, r, evs) ==
  [d \in Clients |->
     IF f[d].page = "game" /\ f[d].roomId = r
       THEN [f[d] EXCEPT !.events = Enqueue(@, evs)]
       ELSE f[d]]

\* startGame from the game_state insert on: the row, then navigate to /game.
GameStateInsertOk(c) ==
  \E m \in InFlight("gsInsert") :
    /\ m.c = c
    /\ game_state' = Append(game_state,
         [room_id |-> m.room, cur |-> m.pid, prompt |-> m.prompt,
          status |-> "active"])
    /\ hist' = IF hist[m.room] = <<>>
                 THEN [hist EXCEPT ![m.room] = <<Written(m.pid, 0)>>]
                 ELSE hist
    /\ LET f == Broadcast(cl, m.room, <<[cur |-> m.pid, prompt |-> m.prompt]>>)
       IN cl' = IF cl[c].page = "lobby"
                  THEN [f EXCEPT ![c] = FreshPage(c, "game")]
                  ELSE f
    /\ net' = Done(m)
    /\ UNCHANGED <<rooms, playerRows, prompts, responses>>

\* A variant of the failed start that puts the room back to waiting; the
\* one-way lifecycle of a room (C15) must tell it from the real one.
GameStateInsertFailReopens(c) ==
  \E m \in InFlight("gsInsert") :
    /\ m.c = c
    /\ rooms' = [rooms EXCEPT ![m.room].status = "waiting"]
    /\ cl' = [cl EXCEPT ![c].err = ErrStore]
    /\ net' = Done(m)
    /\ UNCHANGED <<playerRows, prompts, game_state, responses, hist>>

GameStateInsertFail(c) ==
  \E m \in InFlight("gsInsert") :
    /\ m.c = c
    /\ cl' = [cl EXCEPT ![c].err = ErrStore]
    /\ net' = Done(m)
    /\ UNCHANGED <<rooms, playerRows, prompts, game_state, responses, hist>>

\* joinGame: the button a non-host sees once gameStarted is set.
JoinGame(c) ==
  /\ LobbyShown(c)
  /\ ~cl[c].isHost
  /\ cl[c].gameStarted
  /\ cl' = [cl EXCEPT ![c] = FreshPage(c, "game")]
  /\ UNCHANGED <<rooms, playerRows, prompts, game_state, responses, net, hist>>

\* A variant of the mount effect without the session check: the page stays
\* open.  The redirect of a visitor without a session (C16) must tell it from
\* the real effect.
OpenPageNoRedirect(c, page) ==
  /\ cl[c].page = "home"
  /\ cl' = [cl EXCEPT ![c] = FreshPage(c, page)]
  /\ UNCHANGED <<rooms, playerRows, prompts, game_state, responses, net, hist>>

\* A visitor of the landing flow opens the address of a lobby or of a game
\* page.  The mount effect of either page reads playerId and roomId from
\* sessionStorage and, when one is missing, navigates to "/" and returns
\* before any fetch or subscription; the landing flow is mounted afresh.
OpenPage(c, page) ==
  /\ cl[c].page = "home"
  /\ cl' = [cl EXCEPT ![c] =
              IF cl[c].playerId = Null \/ cl[c].roomId = Null
                THEN FreshPage(c, "home")
                ELSE FreshPage(c, page)]
  /\ UNCHANGED <<rooms, playerRows, prompts, game_state, responses, net, hist>>

\* -------------------------------------------------------------- GamePage
\* A variant of the page that fetches the GameState on mount only and then
\* relies on the change events alone; the recovery from a missed event (C26)
\* must tell it from the real page.
FetchGameStateOnMountOnly(c) ==
  /\ cl[c].page = "game"
  /\ cl[c].loading
  /\ LET rows == GameStatesOf(cl[c].roomId)
     IN IF Cardinality(rows) = 1
          THEN LET g == game_state[CHOOSE x \in rows : TRUE]
               IN cl' = [cl EXCEPT
                    ![c].gameState = [cur |-> g.cur, prompt |-> g.prompt],
                    ![c].currentPrompt = IF g.prompt # Null THEN g.prompt ELSE @,
                    ![c].loading = FALSE]
          ELSE cl' = [cl EXCEPT ![c].err = ErrSingle, ![c].loading = FALSE]
  /\ UNCHANGED <<rooms, playerRows, prompts, game_state, responses, net, hist>>

\* fetchGameState: select * from game_state where room_id = roomId, single()
\* (an error unless exactly one row), then fetchCurrentPrompt of its prompt.
FetchGameState(c) ==
  /\ cl[c].page = "game"
  /\ LET rows == GameStatesOf(cl[c].roomId)
     IN IF Cardinality(rows) = 1
          THEN LET g == game_state[CHOOSE x \in rows : TRUE]
               IN cl' = [cl EXCEPT
                    ![c].gameState = [cur |-> g.cur, prompt |-> g.prompt],
                    ![c].currentPrompt = IF g.prompt # Null THEN g.prompt ELSE @,
                    ![c].loading = FALSE]
          ELSE cl' = [cl EXCEPT ![c].err = ErrSingle, ![c].loading = FALSE]
  /\ cl' # cl
  /\ UNCHANGED <<rooms, playerRows, prompts, game_state, responses, net, hist>>

\* fetchPlayers of the game page: the roster, and isCurrentPlayer from the
\* local GameState copy.
FetchPlayers(c) ==
  /\ cl[c].page = "game"
  /\ \E q \in PlayersQuery(cl[c].roomId) :
       cl' = [cl EXCEPT
                ![c].players = q,
                ![c].isCurrentPlayer = (cl[c].gameState.cur = cl[c].playerId)]
  /\ cl' # cl
  /\ UNCHANGED <<rooms, playerRows, prompts, game_state, responses, net, hist>>

\* The game_state subscription's callback on payload.new.
DeliverEvent(c) ==
  /\ cl[c].page = "game"
  /\ cl[c].events # <<>>
  /\ LET e == Head(cl[c].events)
     IN cl' = [cl EXCEPT
                 ![c].gameState = e,
                 ![c].currentPrompt = IF e.prompt # Null THEN e.prompt ELSE @,
                 ![c].showTypeSelection = TRUE,
                 ![c].hasResponded = FALSE,
                 ![c].events = Tail(@)]
  /\ UNCHANGED <<rooms, playerRows, prompts, game_state, responses, net, hist>>

\* An event committed while the effect is between unsubscribe and subscribe
\* never reaches the page.
DropEvent(c) ==
  /\ cl[c].page = "game"
  /\ cl[c].events # <<>>
  /\ cl' = [cl EXCEPT ![c].events = Tail(@)]
  /\ UNCHANGED <<rooms, playerRows, prompts, game_state, responses, net, hist>>

\* The page renders the game only past its loading, error and no-game returns.
GameShown(c) ==
  /\ cl[c].page = "game"
  /\ ~cl[c].loading
  /\ cl[c].err = ""
  /\ cl[c].gameState # NoGameState

\* The type buttons are rendered.
TypeButtons(c) ==
  GameShown(c) /\ cl[c].isCurrentPlayer /\ cl[c].showTypeSelection

\* The submit button is rendered.
SubmitButton(c) ==
  /\ GameShown(c)
  /\ cl[c].currentPrompt # Null
  /\ ~cl[c].showTypeSelection
  /\ cl[c].isCurrentPlayer
  /\ ~cl[c].hasResponded

\* The prompt box is rendered: the page displays currentPrompt.
PromptShown(c) ==
  GameShown(c) /\ cl[c].currentPrompt # Null /\ ~cl[c].showTypeSelection

PromptsOfType(type) == {p \in prompts : PromptType(p) = type}

\* Number of changes of the room's current player so far.
TurnNo(r) ==
  Cardinality({i \in 2..Len(hist[r]) : hist[r][i].cur # hist[r][i-1].cur})

\* A variant of handleTypeSelection without the check of an empty result:
\* the prompt drawn from no rows is undefined and is written as such.  The
\* no-prompts rule (C10) must tell it from the real handler.
TypeSelectionWritesUndefined(c, type) ==
  /\ TypeButtons(c)
  /\ cl' = [cl EXCEPT ![c].showTypeSelection = FALSE,
                      ![c].hasResponded = FALSE]
  /\ IF PromptsOfType(type) = {}
       THEN net' = Send(Req("promptUpdate", c, cl[c].roomId, Null, Null,
                            Null, <<>>, 0))
       ELSE \E p \in PromptsOfType(type) :
              net' = Send(Req("promptUpdate", c, cl[c].roomId, Null, p,
                              Null, <<>>, 0))
  /\ UNCHANGED <<rooms, playerRows, prompts, game_state, responses, hist>>

\* handleTypeSelection up to the await of the game_state update.
TypeSelection(c, type) ==
  /\ TypeButtons(c)
  /\ IF PromptsOfType(type) = {}
       THEN /\ cl' = [cl EXCEPT ![c].showTypeSelection = FALSE,
                                ![c].hasResponded = FALSE,
                                ![c].err = ErrNoPromptsFound]
            /\ net' = net
       ELSE /\ cl' = [cl EXCEPT ![c].showTypeSelection = FALSE,
                                ![c].hasResponded = FALSE]
            /\ \E p \in PromptsOfType(type) :
                 net' = Send(Req("promptUpdate", c, cl[c].roomId, Null, p,
                                 Null, <<>>, 0))
  /\ UNCHANGED <<rooms, playerRows, prompts, game_state, responses, hist>>

\* update game_state set <patch> where room_id = r, and its change events.
RowEvents(gs, r) ==
  LET ids == {g \in DOMAIN gs : gs[g].room_id = r}
      F[S \in SUBSET ids] ==
        IF S = {} THEN <<>>
        ELSE LET g == CHOOSE x \in S : \A y \in S : x <= y
             IN <<[cur |-> gs[g].cur, prompt |-> gs[g].prompt]>> \o F[S \ {g}]
  IN F[ids]

\* The update of current_prompt_id is committed.
PromptUpdateCommit(c) ==
  \E m \in InFlight("promptUpdate") :
    /\ m.c = c
    /\ game_state' = [g \in DOMAIN game_state |->
         IF game_state[g].room_id = m.room
           THEN [game_state[g] EXCEPT !.prompt = m.prompt]
           ELSE game_state[g]]
    /\ cl' = Broadcast(cl, m.room, RowEvents(game_state', m.room))
    /\ net' = Done(m)
    /\ hist' = Chose(m.room, cl[c].playerId)
    /\ UNCHANGED <<rooms, playerRows, prompts, responses>>

\* created_at DEFAULT NOW(): the clock of the store when the insert's
\* transaction begins, here when the request is sent.  The clock has ticked
\* once per response insert begun so far; the row is visible from its commit.
Now == Len(responses) + Pending(net, "respInsert")

\* fetchResponses: select * from responses where room_id = r order by
\* created_at desc; rows of equal created_at come in any order.
ListOf(rs, r) ==
  LET S == {i \in DOMAIN rs : rs[i].room_id = r}
      n == Cardinality(S)
  IN {s \in [1..n -> S] :
        /\ \A i, j \in 1..n : i < j =>
             /\ s[i] # s[j]
             /\ rs[s[i]].created_at >= rs[s[j]].created_at}

ListResponses(r) == ListOf(responses, r)

\* handleSubmitResponse up to the await of the insert.  handleNextTurn of the
\* same render is what the timer will call: its gameState and players are
\* those of the click.
SubmitResponse(c) ==
  /\ SubmitButton(c)
  /\ net' = Send([Req("respInsert", c, cl[c].roomId, cl[c].playerId,
                      cl[c].currentPrompt, cl[c].gameState.cur, cl[c].players,
                      TurnNo(cl[c].roomId)) EXCEPT !.at = Now])
  /\ UNCHANGED <<rooms, playerRows, prompts, game_state, responses, cl, hist>>

\* A variant of the insert that keeps one row per player and room (an
\* upsert); the append-only rule of the log (C13) must tell it from the real
\* insert.
ResponseUpsertCommit(c) ==
  \E m \in InFlight("respInsert") :
    /\ m.c = c
    /\ LET row == [room_id |-> m.room, player_id |-> m.pid,
                   prompt_id |-> m.prompt, created_at |-> m.at]
           old == {i \in DOMAIN responses :
                     /\ responses[i].room_id = m.room
                     /\ responses[i].player_id = m.pid}
       IN responses' = IF old = {} THEN Append(responses, row)
                       ELSE [i \in DOMAIN responses |->
                               IF i \in old THEN row ELSE responses[i]]
    /\ cl' = [cl EXCEPT ![c].hasResponded = TRUE]
    /\ net' = Done(m) (+) SetToBag({[m EXCEPT !.kind = "timer"]})
    /\ hist' = Answered(m.room, m.pid)
    /\ UNCHANGED <<rooms, playerRows, prompts, game_state>>

\* handleSubmitResponse from the insert on: hasResponded, the 2 s timer.
ResponseInsertCommit(c) ==
  \E m \in InFlight("respInsert") :
    /\ m.c = c
    /\ responses' = Append(responses,
         [room_id |-> m.room, player_id |-> m.pid, prompt_id |-> m.prompt,
          created_at |-> m.at])
    /\ cl' = [cl EXCEPT ![c].hasResponded = TRUE]
    /\ net' = Done(m) (+) SetToBag({[m EXCEPT !.kind = "timer"]})
    /\ hist' = Answered(m.room, m.pid)
    /\ UNCHANGED <<rooms, playerRows, prompts, game_state>>

\* A variant of the successor without the modulo: past the last player
\* there is no player (undefined, here Null).  The validity of the written
\* player (C18) must tell it from the real successor.
NextPlayerNoWrap(cur, roster) ==
  LET found == {i \in 1..Len(roster) : roster[i] = cur}
      idx == IF found = {} THEN 0
             ELSE CHOOSE i \in found : \A j \in found : i <= j
  IN IF idx + 1 > Len(roster) THEN Null ELSE roster[idx + 1]

\* (index of the current player + 1) mod roster size; findIndex gives -1 for
\* a current player that is not in the roster, so the first player is next.
NextPlayer(cur, roster) ==
  LET found == {i \in 1..Len(roster) : roster[i] = cur}
      idx == IF found = {} THEN 0
             ELSE CHOOSE i \in found : \A j \in found : i <= j
  IN roster[(idx % Len(roster)) + 1]

\* A variant of handleNextTurn whose update also clears current_prompt_id;
\* the frame of the advance (C28) must tell it from the real handler.
HandleNextTurnClearsPrompt(c) ==
  \E m \in InFlight("timer") :
    /\ m.c = c
    /\ net' = Done(m)
    /\ IF m.cur = Null \/ m.roster = <<>>
         THEN UNCHANGED <<game_state, hist, cl>>
         ELSE LET next == NextPlayer(m.cur, m.roster)
              IN /\ game_state' = [g \in DOMAIN game_state |->
                      IF game_state[g].room_id = m.room
                        THEN [game_state[g] EXCEPT !.cur = next,
                                                   !.prompt = Null]
                        ELSE game_state[g]]
                 /\ hist' = Advanced(m.room, next, m.turn)
                 /\ cl' = [Broadcast(cl, m.room,
                                     RowEvents(game_state', m.room)) EXCEPT
                      ![c].showTypeSelection = TRUE,
                      ![c].hasResponded = FALSE]
    /\ UNCHANGED <<rooms, playerRows, prompts, responses>>

\* The timer fires: handleNextTurn.  It returns at once without a local
\* GameState or with an empty roster; else it writes current_player_id and
\* then sets the local flags of a new turn.
HandleNextTurn(c) ==
  \E m \in InFlight("timer") :
    /\ m.c = c
    /\ net' = Done(m)
    /\ IF m.cur = Null \/ m.roster = <<>>
         THEN UNCHANGED <<game_state, hist, cl>>
         ELSE LET next == NextPlayer(m.cur, m.roster)
              IN /\ game_state' = [g \in DOMAIN game_state |->
                      IF game_state[g].room_id = m.room
                        THEN [game_state[g] EXCEPT !.cur = next]
                        ELSE game_state[g]]
                 /\ hist' = Advanced(m.room, next, m.turn)
                 /\ cl' = [Broadcast(cl, m.room,
                                     RowEvents(game_state', m.room)) EXCEPT
                      ![c].showTypeSelection = TRUE,
                      ![c].hasResponded = FALSE]
    /\ UNCHANGED <<rooms, playerRows, prompts, responses>>

\* ----------------------------------------------------------- next states
Visitors == 1..NVisitors

\* The bounds of a run: rows per table, requests in flight, turns played.
LobbyWithin ==
  /\ Len(rooms) <= MaxRooms
  /\ Len(playerRows) + Pending(net, "hostInsert")
       + Pending(net, "playerInsert") <= MaxPlayers
  /\ Len(game_state) + Pending(net, "gsInsert") <= MaxGameStates

Within(maxResponses, maxTurns) ==
  /\ Pending(net, "promptUpdate") <= MaxInFlight
  /\ Len(responses) + Pending(net, "respInsert") <= maxResponses
  /\ \A r \in DOMAIN hist : Len(hist[r]) <= maxTurns + 1

\* Rooms are created, joined and started: everything up to the navigation
\* to the game page.
Next ==
  \E c \in Visitors :
    \/ \E code \in Codes : CreateRoom(c, code) /\ LobbyWithin'
    \/ HostInsertOk(c)
    \/ HostInsertFail(c)
    \/ \E nickEmpty \in BOOLEAN, code \in {0} \cup Codes :
         JoinRoom(c, nickEmpty, code) /\ LobbyWithin'
    \/ PlayerInsertOk(c)
    \/ PlayerInsertFail(c)
    \/ CheckHost(c)
    \/ LobbyFetchPlayers(c)
    \/ CheckGameStatus(c)
    \/ StartGame(c) /\ LobbyWithin'
    \/ GameStateInsertOk(c)
    \/ GameStateInsertFail(c)
    \/ JoinGame(c)
    \/ \E page \in {"lobby", "game"} : OpenPage(c, page)

Spec == Init /\ [][Next]_vars

\* ------------------------------------------------------- a started game
\* The state right after startGame in room 1 (host: player 1, joiner:
\* player 2), both on a freshly mounted game page.  Player 3 is the host of
\* another room.  Client 3 read room 1 as waiting just before the start and
\* its player insert is still in flight.  The row is the one startGame
\* inserts from a roster the host's lobby can hold.
InitGame ==
  /\ rooms = <<[code |-> 1, status |-> "active"],
               [code |-> 2, status |-> "waiting"]>>
  /\ playerRows = <<[room_id |-> 1, is_host |-> TRUE, turn_order |-> 1],
                    [room_id |-> 1, is_host |-> FALSE, turn_order |-> 0],
                    [room_id |-> 2, is_host |-> TRUE, turn_order |-> 1]>>
  /\ prompts \in Catalogs \ {{}}
  /\ responses = <<>>
  /\ net = SetToBag({Req("playerInsert", 3, 1, Null, Null, Null, <<>>, 0)})
  /\ \E q \in PlayersQuery(1), p \in prompts :
       /\ game_state = <<[room_id |-> 1, cur |-> q[1], prompt |-> p,
                          status |-> "active"]>>
       /\ hist = [r \in 1..MaxRooms |->
                    IF r = 1 THEN <<Written(q[1], 0)>> ELSE <<>>]
  /\ cl = [c \in Clients |->
             IF c \in {1, 2}
               THEN [InitClient EXCEPT !.page = "game", !.loading = TRUE,
                                       !.playerId = c, !.roomId = 1,
                                       !.nickname = IF c = 2 THEN Nickname(c)
                                                    ELSE Null]
               ELSE [InitClient EXCEPT !.loading = TRUE]]

\* The game page, every interleaving of its handlers, store commits and
\* event deliveries.
NextGame ==
  \E c \in Clients :
    \/ FetchGameState(c)
    \/ FetchPlayers(c)
    \/ DeliverEvent(c)
    \/ DropEvent(c)
    \/ \E type \in Types :
         TypeSelection(c, type) /\ Within(MaxResponses, MaxTurns)'
    \/ PromptUpdateCommit(c)
    \/ SubmitResponse(c) /\ Within(MaxResponses, MaxTurns)'
    \/ ResponseInsertCommit(c)
    \/ HandleNextTurn(c) /\ Within(MaxResponses, MaxTurns)'
    \/ PlayerInsertOk(c)
    \/ \E page \in {"lobby", "game"} : OpenPage(c, page)

SpecGame == InitGame /\ [][NextGame]_vars

\* A client whose game page has caught up with the store.
UpToDate(c) ==
  cl[c].page = "game" =>
    /\ cl[c].events = <<>>
    /\ ~cl[c].loading
    /\ cl[c].players # <<>>
    /\ \A g \in GameStatesOf(cl[c].roomId) :
         cl[c].gameState = [cur |-> game_state[g].cur,
                            prompt |-> game_state[g].prompt]
    /\ cl[c].isCurrentPlayer = (cl[c].gameState.cur = cl[c].playerId)

Quiet == \A c \in Clients : UpToDate(c)

\* The game page on a fast network: every page processes its events and
\* re-fetches before the next click or store write.  Timers still wait.
NextTurns ==
  \E c \in Clients :
    \/ FetchGameState(c)
    \/ FetchPlayers(c)
    \/ DeliverEvent(c)
    \/ \E type \in Types :
         Quiet /\ TypeSelection(c, type) /\ Within(DeepResponses, DeepTurns)'
    \/ Quiet /\ PromptUpdateCommit(c)
    \/ Quiet /\ SubmitResponse(c) /\ Within(DeepResponses, DeepTurns)'
    \/ Quiet /\ ResponseInsertCommit(c)
    \/ Quiet /\ HandleNextTurn(c) /\ Within(DeepResponses, DeepTurns)'

SpecTurns == InitGame /\ [][NextTurns]_vars

\* A client whose game page is loaded and has no change event waiting: the
\* events were handled or missed, the local copies may be out of date.
Settled(c) ==
  cl[c].page = "game" =>
    /\ cl[c].events = <<>>
    /\ ~cl[c].loading
    /\ cl[c].players # <<>>

\* Every page is settled and the host's page (client 1) is up to date; the
\* page of another player may lag behind the store.
Calm == UpToDate(1) /\ \A c \in Clients : Settled(c)

\* The game page on a network that is fast next to the players and the 2 s
\* timer: pages settle before the next click, commit or timer.  A page that
\* is loading gets its answers and a queued event is handled or missed, the
\* store commits what it was sent and a timer that was set fires: fairness
\* of these steps, strong for the commit of a response and for the timer,
\* which do not wait for a player who keeps choosing types.  Nothing
\* obliges a player to click, and a player
\* who submitted waits for the turn to move before submitting again.  The
\* catalog is the one of truths only.
Waiting(c) == \E m \in BagToSet(net) : m.c = c /\ m.kind \in {"respInsert", "timer"}

InitLive == InitGame /\ prompts = {1}

NextLive ==
  \E c \in Clients :
    \/ FetchGameState(c)
    \/ FetchPlayers(c)
    \/ DeliverEvent(c)
    \/ DropEvent(c)
    \/ \E type \in Types :
         Calm /\ TypeSelection(c, type) /\ Within(DeepResponses, DeepTurns)'
    \/ Calm /\ PromptUpdateCommit(c)
    \/ Calm /\ ~Waiting(c) /\ SubmitResponse(c)
         /\ Within(DeepResponses, DeepTurns)'
    \/ Calm /\ ResponseInsertCommit(c)
    \/ Calm /\ HandleNextTurn(c) /\ Within(DeepResponses, DeepTurns)'

SpecLive ==
  /\ InitLive
  /\ [][NextLive]_vars
  /\ \A c \in Clients : WF_vars(FetchGameState(c))
  /\ \A c \in Clients : WF_vars(FetchPlayers(c))
  /\ \A c \in Clients : WF_vars(DeliverEvent(c) \/ DropEvent(c))
  /\ SF_vars(\E c \in Clients : Calm /\ ResponseInsertCommit(c))
  /\ SF_vars(\E c \in Clients :
               Calm /\ HandleNextTurn(c) /\ Within(DeepResponses, DeepTurns)')

\* handleNextTurn on any input: the timer is set with the gameState and the
\* players of whatever render the page is in, also one that shows no submit
\* button (no GameState yet, no roster yet, a roster fetched before a join,
\* a current player the roster does not hold).
AdvanceCall(c) ==
  /\ cl[c].page = "game"
  /\ Pending(net, "timer") < MaxInFlight
  /\ net' = Send(Req("timer", c, cl[c].roomId, cl[c].playerId,
                     cl[c].currentPrompt, cl[c].gameState.cur, cl[c].players,
                     TurnNo(cl[c].roomId)))
  /\ UNCHANGED <<rooms, playerRows, prompts, game_state, responses, cl, hist>>

\* The pages fetch, handle events and advance the turn from what they hold
\* while a late join commits; the catalog is the one of truths only.
NextAdvance ==
  \E c \in Clients :
    \/ FetchGameState(c)
    \/ FetchPlayers(c)
    \/ DeliverEvent(c)
    \/ PlayerInsertOk(c)
    \/ AdvanceCall(c)
    \/ HandleNextTurn(c) /\ Within(DeepResponses, AdvanceTurns)'

SpecAdvance == InitLive /\ [][NextAdvance]_vars

\* ------------------------------------------------------- rejected writes
\* The update of current_prompt_id is rejected by the store.  The handler
\* awaits the call without reading its error, and the call does not throw.
PromptUpdateFail(c) ==
  \E m \in InFlight("promptUpdate") :
    /\ m.c = c
    /\ net' = Done(m)
    /\ UNCHANGED <<rooms, playerRows, prompts, game_state, responses, cl, hist>>

\* The response insert is rejected by the store.  The handler awaits the
\* call without reading its error and goes on: hasResponded, the 2 s timer.
ResponseInsertFail(c) ==
  \E m \in InFlight("respInsert") :
    /\ m.c = c
    /\ cl' = [cl EXCEPT ![c].hasResponded = TRUE]
    /\ net' = Done(m) (+) SetToBag({[m EXCEPT !.kind = "timer"]})
    /\ UNCHANGED <<rooms, playerRows, prompts, game_state, responses, hist>>

\* The update of current_player_id is rejected by the store: handleNextTurn
\* throws the error it was returned and its catch displays the message.
HandleNextTurnFail(c) ==
  \E m \in InFlight("timer") :
    /\ m.c = c
    /\ m.cur # Null
    /\ m.roster # <<>>
    /\ net' = Done(m)
    /\ cl' = [cl EXCEPT ![c].err = ErrStore]
    /\ UNCHANGED <<rooms, playerRows, prompts, game_state, responses, hist>>

\* The game page on a fast network with a store that may reject a write.  A
\* player who submitted waits for the timer before submitting again; the
\* catalog is the one of truths only.
NextFaults ==
  \E c \in Clients :
    \/ FetchGameState(c)
    \/ FetchPlayers(c)
    \/ DeliverEvent(c)
    \/ \E type \in Types :
         Quiet /\ TypeSelection(c, type) /\ Within(DeepResponses, AdvanceTurns)'
    \/ Quiet /\ PromptUpdateCommit(c)
    \/ Quiet /\ PromptUpdateFail(c)
    \/ Quiet /\ ~Waiting(c) /\ SubmitResponse(c)
         /\ Within(DeepResponses, AdvanceTurns)'
    \/ Quiet /\ ResponseInsertCommit(c)
    \/ Quiet /\ ResponseInsertFail(c)
    \/ Quiet /\ HandleNextTurn(c) /\ Within(DeepResponses, AdvanceTurns)'
    \/ Quiet /\ HandleNextTurnFail(c)

SpecFaults == InitLive /\ [][NextFaults]_vars

\* ------------------------------------------------------- a filled lobby
\* Room 1 is waiting with its host (player 1) and one joiner (player 2),
\* both on a freshly mounted lobby page; visitor 3 is on the landing flow.
InitLobby ==
  /\ rooms = <<[code |-> 1, status |-> "waiting"]>>
  /\ playerRows = <<[room_id |-> 1, is_host |-> TRUE, turn_order |-> 1],
                    [room_id |-> 1, is_host |-> FALSE, turn_order |-> 0]>>
  /\ prompts \in Catalogs
  /\ game_state = <<>>
  /\ responses = <<>>
  /\ net = EmptyBag
  /\ hist = [r \in 1..MaxRooms |-> <<>>]
  /\ cl = [c \in Clients |->
             IF c \in {1, 2}
               THEN [InitClient EXCEPT !.page = "lobby", !.loading = TRUE,
                                       !.playerId = c, !.roomId = 1,
                                       !.nickname = IF c = 2 THEN Nickname(c)
                                                    ELSE Null]
               ELSE InitClient]

RaceWithin ==
  /\ Len(playerRows) + Pending(net, "playerInsert") <= RacePlayers
  /\ Len(game_state) + Pending(net, "gsInsert") <= MaxGameStates

\* A visitor joins the room while its host starts the game: the joiner's
\* status read and player insert and the host's startGame in every order.
NextJoinRace ==
  \E c \in Clients :
    \/ \E nickEmpty \in BOOLEAN, code \in {0} \cup Codes :
         JoinRoom(c, nickEmpty, code) /\ RaceWithin'
    \/ PlayerInsertOk(c)
    \/ PlayerInsertFail(c)
    \/ CheckHost(c)
    \/ LobbyFetchPlayers(c)
    \/ CheckGameStatus(c)
    \/ StartGame(c) /\ RaceWithin'
    \/ GameStateInsertOk(c)
    \/ GameStateInsertFail(c)
    \/ JoinGame(c)

SpecJoinRace == InitLobby /\ [][NextJoinRace]_vars

\* ------------------------------------------------------------------ claims
\* C1: the handleNextTurn executions triggered within one turn of a room
\* (the same GameState, the same submitted turn) change current_player_id at
\* most once: of two writes whose triggers were created in the same turn, at
\* most one changes the current player.
C1_AdvanceOncePerTurn ==
  \A r \in DOMAIN hist :
    \A i, j \in 2..Len(hist[r]) :
      (i < j /\ hist[r][i].turn = hist[r][j].turn
             /\ hist[r][i].cur # hist[r][i-1].cur)
        => hist[r][j].cur = hist[r][j-1].cur

\* C2: with a fixed roster of N players, N consecutive advances bring the
\* current player back to where it was, and visit N different players.
C2_CyclicTurns ==
  \A r \in DOMAIN hist :
    LET h == hist[r]
        N == Cardinality(PlayersOf(r))
    IN \A i \in 1..(Len(h) - N) :
         /\ h[i + N].cur = h[i].cur
         /\ \A j, k \in i..(i + N - 1) : j # k => h[j].cur # h[k].cur

\* C3: for every GameState row, current_player_id is the id of a Player row
\* of the GameState's own room, at the start and after every turn advance,
\* also when a join commits in between.
C3_CurrentPlayerInRoom ==
  \A g \in DOMAIN game_state :
    game_state[g].cur \in PlayersOf(game_state[g].room_id)

\* A turn advance has made the late joiner (player 4) the current player.
C3_Witness ==
  /\ Len(hist[1]) >= 2
  /\ Len(playerRows) = 4
  /\ \E g \in GameStatesOf(1) : game_state[g].cur = 4

\* C4: every room of the store has exactly one Player row with is_host,
\* also between the two inserts of room creation and after a failed host
\* insert.
C4_OneHostPerRoom ==
  \A r \in DOMAIN rooms :
    Cardinality({p \in PlayersOf(r) : playerRows[p].is_host}) = 1

\* C5: the GameState that start game creates names the host as the current
\* player.
C5_HostIsFirst ==
  \A r \in DOMAIN hist :
    hist[r] # <<>> => playerRows[hist[r][1].cur].is_host

\* C6: a room never has more than one GameState row.
C6_OneGameStatePerRoom ==
  \A r \in DOMAIN rooms : Cardinality(GameStatesOf(r)) <= 1

\* C7: a Response row is inserted with the prompt_id that the GameState of
\* its room holds as current_prompt_id when the insert commits.
C7_ResponseMatchesCurrentPrompt ==
  [][Len(responses') > Len(responses) =>
       LET row == responses'[Len(responses')]
       IN \A g \in GameStatesOf(row.room_id) :
            game_state[g].prompt = row.prompt_id]_vars

\* C8: a join with a nickname and the code of a room that is read as active
\* ends in the error 'Game has already started', which is neither the
\* not-found nor the empty-input error; it sends no player insert, adds no
\* Player row and leaves the session (player id, room id, page) as it was.
C8_JoinActiveRejected ==
  [][\A c \in Visitors, code \in Codes :
       (/\ JoinRoom(c, FALSE, code)
        /\ \E r \in RoomsWithCode(code) : rooms[r].status = "active")
         => /\ cl'[c].err = ErrGameStarted
            /\ cl'[c].err \notin {ErrRoomNotFound, ErrEmptyInput}
            /\ playerRows' = playerRows
            /\ net' = net
            /\ cl'[c].playerId = cl[c].playerId
            /\ cl'[c].roomId = cl[c].roomId
            /\ cl'[c].page = "home"]_vars

\* A visitor without a session was told that the game of an active room has
\* started.
C8_Witness ==
  \E c \in Visitors :
    /\ cl[c].page = "home"
    /\ cl[c].playerId = Null
    /\ cl[c].err = ErrGameStarted
    /\ \E r \in DOMAIN rooms : rooms[r].status = "active"

\* C9: a join with a nickname and a code that no room has ends in the
\* not-found error; it sends no player insert, adds no Player row and leaves
\* the session as it was.
C9_JoinUnknownCodeRejected ==
  [][\A c \in Visitors, code \in Codes :
       (JoinRoom(c, FALSE, code) /\ RoomsWithCode(code) = {})
         => /\ cl'[c].err = ErrRoomNotFound
            /\ playerRows' = playerRows
            /\ net' = net
            /\ cl'[c].playerId = cl[c].playerId
            /\ cl'[c].roomId = cl[c].roomId
            /\ cl'[c].page = "home"]_vars

\* A visitor without a session was told that the room was not found while a
\* room with another code exists.
C9_Witness ==
  \E c \in Visitors :
    /\ cl[c].page = "home"
    /\ cl[c].playerId = Null
    /\ cl[c].err = ErrRoomNotFound
    /\ rooms # <<>>

\* C10: choosing a type of which the catalog has no prompt sets the
\* no-prompts error on the chooser's page and writes nothing: no update is
\* sent and the GameState rows (current prompt, current player) are as before.
C10_NoPromptsNoWrite ==
  [][\A c \in Clients, type \in Types :
       (TypeSelection(c, type) /\ PromptsOfType(type) = {})
         => /\ cl'[c].err = ErrNoPromptsFound
            /\ game_state' = game_state
            /\ net' = net]_vars

\* The current player chose dare in a catalog of truths only.
C10_Witness ==
  \E c \in Clients :
    /\ cl[c].page = "game"
    /\ cl[c].err = ErrNoPromptsFound
    /\ PromptsOfType("dare") = {}
    /\ ~cl[c].showTypeSelection

\* C11: when a response insert commits, the list of the room's responses by
\* created_at descending has the new row as its first element.
C11_NewResponseIsHead ==
  [][Len(responses') > Len(responses) =>
       LET new == Len(responses')
       IN \A q \in ListOf(responses', responses'[new].room_id) :
            q[1] = new]_vars

\* C12: a room that has fewer than 2 Player rows is not active, has no
\* GameState row and no GameState insert on its way.
C12_StartNeedsTwoPlayers ==
  \A r \in DOMAIN rooms :
    Cardinality(PlayersOf(r)) < 2 =>
      /\ rooms[r].status = "waiting"
      /\ GameStatesOf(r) = {}
      /\ \A m \in InFlight("gsInsert") : m.room # r

\* A game was started in a room of two players while another room, with no
\* player row at all, is still waiting.
C12_Witness ==
  \E r, s \in DOMAIN rooms :
    /\ rooms[r].status = "active"
    /\ GameStatesOf(r) # {}
    /\ Cardinality(PlayersOf(r)) = 2
    /\ PlayersOf(s) = {}
    /\ rooms[s].status = "waiting"

\* C13: no step removes or changes a Response row (room, player, prompt,
\* creation time), a step adds at most one row, and the commit of a
\* submission adds exactly one, at the end of the log.
C13_ResponsesAppendOnly ==
  [][/\ Len(responses') \in {Len(responses), Len(responses) + 1}
     /\ SubSeq(responses', 1, Len(responses)) = responses
     /\ \A c \in Clients :
          ResponseInsertCommit(c) => Len(responses') = Len(responses) + 1]_vars

\* The log holds responses of two players, the older one still in place
\* after a later turn.
C13_Witness ==
  /\ Len(responses) >= 2
  /\ \E i, j \in DOMAIN responses :
       i < j /\ responses[i].player_id # responses[j].player_id

\* C14: no two rooms have the same code; a create room whose code is taken
\* ends in the store's error and creates nothing: no Room row, no host
\* insert sent, no Player row, and the session (player id, room id, page)
\* is as before.
C14_RoomCodesUnique ==
  [][/\ \A r, s \in DOMAIN rooms' : r # s => rooms'[r].code # rooms'[s].code
     /\ \A c \in Visitors, code \in Codes :
          (CreateRoom(c, code) /\ RoomsWithCode(code) # {})
            => /\ cl'[c].err = ErrStore
               /\ rooms' = rooms
               /\ playerRows' = playerRows
               /\ net' = net
               /\ cl'[c].playerId = cl[c].playerId
               /\ cl'[c].roomId = cl[c].roomId
               /\ cl'[c].page = "home"]_vars

\* A visitor without a session was refused the code of the only room, a
\* room that has its host.
C14_Witness ==
  /\ Len(rooms) = 1
  /\ \E p \in PlayersOf(1) : playerRows[p].is_host
  /\ \E c \in Visitors :
       /\ cl[c].page = "home"
       /\ cl[c].playerId = Null
       /\ ~cl[c].loading
       /\ cl[c].err = ErrStore

\* C15: a room row appears with status waiting; a step leaves the status and
\* the code of every existing room as they are, except that the start game of
\* a client of the room takes it from waiting to active; no step takes an
\* active room to another status.
C15_RoomLifecycle ==
  [][\A r \in DOMAIN rooms' :
       IF r \in DOMAIN rooms
         THEN /\ rooms'[r].code = rooms[r].code
              /\ \/ rooms'[r].status = rooms[r].status
                 \/ /\ rooms[r].status = "waiting"
                    /\ rooms'[r].status = "active"
                    /\ \E c \in Visitors : StartGame(c) /\ cl[c].roomId = r
         ELSE rooms'[r].status = "waiting"]_vars

\* A joiner's lobby has seen its room active after the host's start failed
\* at the GameState insert: the room stays active.
C15_Witness ==
  \E c, h \in Visitors :
    /\ cl[c].page = "lobby"
    /\ cl[c].gameStarted
    /\ rooms[cl[c].roomId].status = "active"
    /\ cl[h].page = "lobby"
    /\ cl[h].roomId = cl[c].roomId
    /\ cl[h].isHost
    /\ cl[h].err = ErrStore

\* C16: a client without a session (no playerId or no roomId) is on the
\* landing flow, not on a lobby or game page; no change event of a room is
\* queued for it, its page holds no GameState, roster or prompt of a room,
\* and no GameState write, response insert or turn timer of its own is on
\* its way.
C16_NoSessionNoGame ==
  \A c \in Clients :
    (cl[c].playerId = Null \/ cl[c].roomId = Null) =>
      /\ cl[c].page = "home"
      /\ cl[c].events = <<>>
      /\ cl[c].gameState = NoGameState
      /\ cl[c].players = <<>>
      /\ cl[c].currentPrompt = Null
      /\ \A m \in BagToSet(net) :
           m.c = c => m.kind \in {"hostInsert", "playerInsert"}

\* During a game in room 1 the visitor without a session has opened a page
\* address and is back on a fresh landing flow, while a change event is
\* queued for a player of the room.
C16_Witness ==
  \E c \in Clients :
    /\ cl[c].playerId = Null
    /\ cl[c].page = "home"
    /\ ~cl[c].loading
    /\ \E d \in Clients : cl[d].page = "game" /\ cl[d].events # <<>>

\* C17: when the response insert of the room's current player, submitted in
\* the present turn, is on its way, then eventually the room's
\* current_player_id is the player that follows the submitter in the roster
\* (index + 1 modulo its size).
C17_SubmitAdvances ==
  \A c \in Clients :
    (\E m \in InFlight("respInsert") :
       /\ m.c = c
       /\ m.turn = TurnNo(m.room)
       /\ \A g \in GameStatesOf(m.room) : game_state[g].cur = m.pid)
    ~> (\A g \in GameStatesOf(cl[c].roomId) :
          \E q \in PlayersQuery(cl[c].roomId) :
            game_state[g].cur = NextPlayer(cl[c].playerId, q))

\* C18: when handleNextTurn runs on a snapshot without a GameState or with
\* an empty roster, the GameState rows and every page are as before (no
\* write, no error); on any other snapshot the current_player_id it writes
\* is a member of the snapshot's roster and a Player row of the room, and no
\* error is set.
C18_AdvanceWritesRosterMember ==
  [][\A c \in Clients :
       \A m \in InFlight("timer") :
         (HandleNextTurn(c) /\ m.c = c /\ net' = Done(m)) =>
           IF m.cur = Null \/ m.roster = <<>>
             THEN game_state' = game_state /\ cl' = cl
             ELSE /\ \A g \in GameStatesOf(m.room) :
                       /\ \E i \in DOMAIN m.roster :
                            game_state'[g].cur = m.roster[i]
                       /\ game_state'[g].cur \in PlayersOf(m.room)
                  /\ cl'[c].err = cl[c].err]_vars

\* The late joiner (player 4) was the current player and the turn was
\* advanced from it to the first player of a roster that was fetched before
\* the join and does not hold the joiner.
C18_Witness ==
  /\ \E i \in 1..(Len(hist[1]) - 1) :
       hist[1][i].cur = 4 /\ hist[1][i + 1].cur = 2
  /\ \E c \in Clients : cl[c].page = "game" /\ cl[c].players = <<2, 1>>
  /\ \A c \in Clients : cl[c].page = "game" => cl[c].players # <<4, 2, 1>>

\* C19: when the page of the current player, who has chosen a type and not
\* yet submitted, handles the change event of the GameState, it then shows
\* the prompt of the event with the submit control.
C19_ChosenPromptAwaitsResponse ==
  [][\A c \in Clients :
       (/\ DeliverEvent(c)
        /\ GameShown(c)
        /\ cl[c].isCurrentPlayer
        /\ ~cl[c].showTypeSelection
        /\ ~cl[c].hasResponded
        /\ ~Waiting(c)
        /\ Head(cl[c].events).cur = cl[c].playerId)
         => /\ SubmitButton(c)'
            /\ cl'[c].currentPrompt = Head(cl[c].events).prompt]_vars

\* C20: in a started game in which nothing was chosen, submitted or advanced
\* yet, the loaded page of the first player, which knows it is the current
\* player, shows the opening prompt with the submit control.
C20_OpeningPromptAwaitsResponse ==
  \A c \in Clients :
    (/\ GameShown(c)
     /\ cl[c].isCurrentPlayer
     /\ cl[c].events = <<>>
     /\ responses = <<>>
     /\ Len(hist[cl[c].roomId]) = 1
     /\ hist[cl[c].roomId][1].cur = cl[c].playerId
     /\ \A m \in BagToSet(net) : m.kind = "playerInsert")
      => /\ SubmitButton(c)
         /\ \A g \in GameStatesOf(cl[c].roomId) :
              cl[c].currentPrompt = game_state[g].prompt

\* C21: after a turn advance no client displays the previous turn's prompt:
\* a client whose GameState copy has the current player of the advance shows
\* no prompt as long as the store's prompt has not been rewritten by a
\* committed type choice of that player.
C21_NoStalePromptAfterAdvance ==
  \A c \in Clients :
    LET h == hist[cl[c].roomId]
    IN (/\ GameShown(c)
        /\ TurnNo(cl[c].roomId) >= 1
        /\ ~h[Len(h)].chosen
        /\ cl[c].gameState.cur = h[Len(h)].cur)
         => ~PromptShown(c)

\* C22: at most one response is appended per turn: while a player is the
\* store's current player, at most one response of that player is appended.
C22_OneResponsePerTurn ==
  \A r \in DOMAIN hist :
    \A i \in 1..Len(hist[r]) : hist[r][i].answers <= 1

\* C23: only the current player submits: every response row that is appended
\* has the player_id that is the store's current_player_id of its room at
\* the moment of the insert.
C23_OnlyCurrentPlayerSubmits ==
  [][Len(responses') > Len(responses) =>
       LET row == responses'[Len(responses')]
       IN \A g \in GameStatesOf(row.room_id) :
            game_state[g].cur = row.player_id]_vars

\* C24: only the current player chooses the type: every committed write of
\* current_prompt_id was issued by the client whose playerId is the store's
\* current_player_id of the room at the moment of the write.
C24_OnlyCurrentPlayerChooses ==
  [][\A m \in InFlight("promptUpdate") :
       net' = Done(m) =>
         \A g \in GameStatesOf(m.room) :
           game_state[g].cur = cl[m.c].playerId]_vars

\* C25: on a change event of GameState the client sets its local copy from
\* a read of the store, not from the payload: after the event is processed
\* the local GameState is the store's row.
C25_EventRefetchesGameState ==
  [][\A c \in Clients :
       DeliverEvent(c) =>
         \A g \in GameStatesOf(cl[c].roomId) :
           cl'[c].gameState = [cur |-> game_state[g].cur,
                               prompt |-> game_state[g].prompt]]_vars

\* A loaded game page with no change event on its way whose local current
\* player is not the store's: a change event was missed.
MissedCur(c) ==
  /\ cl[c].page = "game"
  /\ ~cl[c].loading
  /\ cl[c].events = <<>>
  /\ \E g \in GameStatesOf(cl[c].roomId) :
       cl[c].gameState.cur # game_state[g].cur

\* C26: a missed change event does not leave a client stale forever: a game
\* page that missed a change of the current player eventually holds the
\* store's current player again, by re-fetching.
C26_MissedEventRecovers ==
  \A c \in Clients :
    MissedCur(c) ~>
      (\A g \in GameStatesOf(cl[c].roomId) :
         cl[c].gameState.cur = game_state[g].cur)

C26_Witness == \E c \in Clients : MissedCur(c) /\ Len(hist[cl[c].roomId]) >= 2

\* C27: every failed store write surfaces as a displayed error to the client
\* that initiated it: after the rejected write of a type choice, of a
\* response or of an advance the page of that client holds an error.
C27_FailedWritesSurface ==
  [][\A c \in Clients :
       (PromptUpdateFail(c) \/ ResponseInsertFail(c) \/ HandleNextTurnFail(c))
         => cl'[c].err # ""]_vars

\* C28: an advance of the turn changes only current_player_id: the prompt,
\* the status and the room of every GameState row, the rooms, the roster and
\* the response log are what they were before the advance.
C28_AdvanceChangesOnlyCurrentPlayer ==
  [][(\E r \in DOMAIN hist : Len(hist'[r]) > Len(hist[r])) =>
       /\ DOMAIN game_state' = DOMAIN game_state
       /\ \A g \in DOMAIN game_state :
            /\ game_state'[g].prompt = game_state[g].prompt
            /\ game_state'[g].status = game_state[g].status
            /\ game_state'[g].room_id = game_state[g].room_id
       /\ rooms' = rooms
       /\ playerRows' = playerRows
       /\ responses' = responses]_vars

\* After an advance the store still holds the prompt of the previous turn.
C28_Witness ==
  /\ TurnNo(1) >= 1
  /\ ~hist[1][Len(hist[1])].chosen
  /\ responses # <<>>
  /\ \E g \in GameStatesOf(1) :
       /\ game_state[g].prompt = responses[Len(responses)].prompt_id
       /\ game_state[g].cur # responses[Len(responses)].player_id

\* C29: listPlayers is deterministic: two game pages that hold the same
\* players of a room hold them in the same sequence, the one ascending by
\* turn_order with equal turn_order values in the order of creation.
C29_ListPlayersDeterministic ==
  \A c \in Clients :
    (cl[c].page = "game" /\ cl[c].players # <<>>) =>
      LET q == cl[c].players
      IN /\ \A i, j \in 1..Len(q) :
              (i < j /\ playerRows[q[i]].turn_order = playerRows[q[j]].turn_order)
                => q[i] < q[j]
         /\ \A d \in Clients :
              (/\ cl[d].page = "game"
               /\ cl[d].roomId = cl[c].roomId
               /\ {cl[d].players[i] : i \in 1..Len(cl[d].players)}
                    = {q[i] : i \in 1..Len(q)})
                => cl[d].players = q

\* C30: after a successful room creation and after a successful join the
\* session holds the whole identity: the playerId of the inserted player
\* row, the roomId of that row's room and the nickname the player typed.
C30_SessionHoldsIdentity ==
  \A c \in Clients :
    cl[c].playerId # Null =>
      /\ cl[c].playerId \in DOMAIN playerRows
      /\ cl[c].roomId = playerRows[cl[c].playerId].room_id
      /\ cl[c].nickname = Nickname(c)

\* C31: no player row is inserted into a room whose status is active at the
\* moment of the insert.
C31_NoInsertIntoActiveRoom ==
  [][Len(playerRows') > Len(playerRows) =>
       rooms[playerRows'[Len(playerRows')].room_id].status # "active"]_vars

\* C32: start game is all-or-nothing: a room is active only if it has a
\* GameState row or the start that set it active is still about to insert
\* one; after a failed start the room is waiting.
C32_StartAllOrNothing ==
  \A r \in DOMAIN rooms :
    rooms[r].status = "active" =>
      \/ GameStatesOf(r) # {}
      \/ \E m \in InFlight("gsInsert") : m.room = r

\* C33: a turn advances only after a response was recorded for it: when a
\* write changes the store's current player from P to another player, a
\* response of P was appended while P was the current player.
C33_AdvanceAfterResponse ==
  [][\A r \in DOMAIN hist :
       (/\ hist[r] # <<>>
        /\ Len(hist'[r]) > Len(hist[r])
        /\ hist'[r][Len(hist'[r])].cur # hist[r][Len(hist[r])].cur)
         => hist[r][Len(hist[r])].answers >= 1]_vars

\* C34: on every game page the local is-current-player flag is true exactly
\* when the local GameState copy names the client's own player as current.
C34_FlagMatchesLocalGameState ==
  \A c \in Clients :
    cl[c].page = "game" =>
      cl[c].isCurrentPlayer = (cl[c].gameState.cur = cl[c].playerId)
====
